---- MODULE Spec2Model ----
(***************************************************************************)
(* FlakyFence (flakyfence.py): StateSnapshot.diff, bisect_polluter,        *)
(* run_sequence, find_victims and analyze, as one state machine.           *)
(*                                                                         *)
(* The machine has three entry points, chosen in Init (variable mode):     *)
(*   "bisect"   a direct call bisect_polluter(victim, suspects, runner)    *)
(*              with an injected deterministic runner, as the tests do;    *)
(*   "analyze"  analyze(test_ids, project, limit): find_victims, then one  *)
(*              bisect_polluter per victim with runner=None, so that each  *)
(*              probe is run_sequence(subset + [victim]);                  *)
(*   "diff"     before.diff(after) on two snapshots.                       *)
(*                                                                         *)
(* The external test executor (pytest through subprocess.run) is a black   *)
(* box: every invocation nondeterministically yields a return code and,    *)
(* for the full run, the lines of its report.                              *)
(***************************************************************************)
EXTENDS Integers, Sequences, FiniteSets, TLC

(***************************************************************************)
(* Bounds of the model.                                                    *)
(***************************************************************************)
\* longest suspects list handed to a direct bisect_polluter call
MaxSuspects == 4
\* longest test_ids list handed to analyze
MaxTests == 3
\* most lines in the report of the full run
MaxReport == 2
\* largest --limit
MaxLimit == 2

\* the node ids of the tests that exist in the project (opaque strings); the
\* id of a parametrized test may hold a space, as in test_x[hello world]
TestIDs == {"a", "b", "c[x y]"}
\* environment variable names and values, module names
Keys == {"K1", "K2"}
Values == {"x", "y"}
Modules == {"m1", "m2"}

VARIABLES
  mode,          \* entry point: "bisect", "analyze" or "diff"
  pc,            \* position in the code
  test_ids,      \* analyze: argument test_ids
  limit,         \* analyze: argument limit
  rc_ok,         \* find_victims: r.returncode == 0 of the full run
  stdout,        \* find_victims: r.stdout.splitlines(), each line split at " "
  li,            \* find_victims: index of the next line of stdout
  soloLog,       \* find_victims: the single-test re-runs made, in order
  victims,       \* find_victims / analyze: list of victims
  vi,            \* analyze: enumerate index i of the loop over victims (1-based)
  results,       \* analyze: list of findings
  victim,        \* bisect_polluter: argument victim
  suspects,      \* bisect_polluter: argument suspects of the current call
  runner,        \* bisect_polluter: argument runner
  top_suspects,  \* suspects of the outermost bisect_polluter call
  offset,        \* position of suspects inside top_suspects (0-based)
  probes,        \* runner invocations of the outermost call, in order
  ret,           \* value returned by bisect_polluter
  before,        \* diff: self
  after,         \* diff: after
  changes        \* diff: returned list

vars == <<mode, pc, test_ids, limit, rc_ok, stdout, li, soloLog, victims, vi,
          results, victim, suspects, runner, top_suspects, offset, probes, ret,
          before, after, changes>>

(***************************************************************************)
(* Helpers.                                                                *)
(***************************************************************************)
Range(s) == {s[i] : i \in 1..Len(s)}

SeqsUpTo(S, n) == UNION {[1..k -> S] : k \in 0..n}

RECURSIVE Orderings(_)
\* every order in which a Python loop may iterate over the set S
Orderings(S) ==
  IF S = {} THEN {<<>>}
  ELSE UNION {{<<x>> \o o : o \in Orderings(S \ {x})} : x \in S}

(***************************************************************************)
(* StateSnapshot                                                           *)
(***************************************************************************)
Envs == UNION {[D -> Values] : D \in SUBSET Keys}

Snapshots == [env : Envs, modules : SUBSET Modules]

\* line 16: set(after.env) - set(self.env)
EnvAdded(self, aft) == DOMAIN aft.env \ DOMAIN self.env

\* line 18: set(self.env) - set(after.env)
EnvRemoved(self, aft) == DOMAIN self.env \ DOMAIN aft.env

\* variant of EnvChanged without the comparison of line 21
EnvChangedNoCompare(self, aft) == DOMAIN self.env \cap DOMAIN aft.env

\* lines 20-21: keys of both whose values differ
EnvChanged(self, aft) ==
  {k \in DOMAIN self.env \cap DOMAIN aft.env : self.env[k] # aft.env[k]}

\* line 23: after.modules - self.modules
ModulesAdded(self, aft) == aft.modules \ self.modules

\* lines 15-25: the lists diff may return; each loop appends in the
\* iteration order of its set, which Python leaves unspecified
diff(self, aft) ==
  {o1 \o o2 \o o3 \o o4 :
     o1 \in Orderings({[type |-> "env_added", key |-> k, value |-> aft.env[k]]
                         : k \in EnvAdded(self, aft)}),
     o2 \in Orderings({[type |-> "env_removed", key |-> k]
                         : k \in EnvRemoved(self, aft)}),
     o3 \in Orderings({[type |-> "env_changed", key |-> k,
                         old |-> self.env[k], new |-> aft.env[k]]
                         : k \in EnvChanged(self, aft)}),
     o4 \in Orderings({[type |-> "module_added", module |-> m]
                         : m \in ModulesAdded(self, aft)})}

(***************************************************************************)
(* The test executor and run_sequence                                      *)
(***************************************************************************)
\* What one pytest run of `tests` with -x can do: firstFail = 0 when every
\* test passes, else the position of the first failing test; -x stops there.
\* An argument that names no test is a usage error (-1): nothing runs and
\* the return code is not zero.
Outcomes(tests) ==
  IF Range(tests) \subseteq TestIDs THEN 0..Len(tests) ELSE {-1}

\* outcome of the test at position i of a run with -x
TestOutcome(firstFail, i) ==
  IF firstFail < 0 THEN "notrun"
  ELSE IF firstFail = 0 \/ i < firstFail THEN "passed"
  ELSE IF i = firstFail THEN "failed" ELSE "notrun"

\* r.returncode == 0
ReturnCodeZero(firstFail) == firstFail = 0

\* lines 44-51
run_sequence(tests, firstFail) ==
  IF tests = <<>> THEN TRUE ELSE ReturnCodeZero(firstFail)

(***************************************************************************)
(* bisect_polluter                                                         *)
(***************************************************************************)
\* an injected runner: passes[S] is runner(tests) for a list whose tests are S
Runners == [SUBSET TestIDs -> BOOLEAN]

NoPasses == [S \in SUBSET TestIDs |-> TRUE]

\* runner=None
None == [given |-> FALSE, passes |-> NoPasses]

\* variant of BaseCase: len(suspects) < 1
BaseCaseEmptyOnly(s) == Len(s) < 1

\* variant of BaseCase: len(suspects) <= 2
BaseCaseUpToTwo(s) == Len(s) <= 2

\* line 33
BaseCase(s) == Len(s) <= 1

\* variant of Mid: split off the first suspect only
MidOne(s) == 1

\* line 35
Mid(s) == Len(s) \div 2

\* line 36
Left(s) == SubSeq(s, 1, Mid(s))

\* variant of Right: suspects[mid + 1:]
RightOffByOne(s) == SubSeq(s, Mid(s) + 2, Len(s))

\* line 36
Right(s) == SubSeq(s, Mid(s) + 1, Len(s))

\* variant of CallRunner: the "not" of lines 37 and 39 dropped
CallRunnerNegated(tests, firstFail) ==
  IF runner.given THEN ~runner.passes[Range(tests)]
  ELSE ~run_sequence(tests \o <<victim>>, firstFail)

\* lines 31-32, 37, 39: runner(tests); firstFail is what the executor does
\* when the runner is the default lambda
CallRunner(tests, firstFail) ==
  IF runner.given THEN runner.passes[Range(tests)]
  ELSE run_sequence(tests \o <<victim>>, firstFail)

\* a record of one runner invocation: the half [lo, hi) of top_suspects that
\* was probed, the range [of_lo, of_hi) that was being split, the result, and
\* what became of the victim in the executor's run
ProbeEntry(half, tests, lo, firstFail) ==
  [half |-> half, tests |-> tests, lo |-> lo, hi |-> lo + Len(tests),
   of_lo |-> offset, of_hi |-> offset + Len(suspects),
   result |-> CallRunner(tests, firstFail),
   victim_out |-> IF runner.given THEN "n/a"
                  ELSE TestOutcome(firstFail, Len(tests) + 1)]

\* the executor is consulted only by the default runner
ProbeOutcomes(tests) ==
  IF runner.given THEN {0} ELSE Outcomes(tests \o <<victim>>)

\* lines 33-34
BisectBase ==
  /\ pc = "bisect_polluter"
  /\ BaseCase(suspects)
  /\ ret' = suspects
  /\ pc' = "bisect_return"
  /\ UNCHANGED <<mode, test_ids, limit, rc_ok, stdout, li, soloLog, victims,
                 vi, results, victim, suspects, runner, top_suspects, offset,
                 probes, before, after, changes>>

\* lines 35-38: probe the left half; on failure recurse into it
BisectLeft ==
  /\ pc = "bisect_polluter"
  /\ ~BaseCase(suspects)
  /\ \E ff \in ProbeOutcomes(Left(suspects)) :
       LET e == ProbeEntry("left", Left(suspects), offset, ff) IN
       /\ probes' = Append(probes, e)
       /\ IF ~e.result
          THEN /\ suspects' = Left(suspects)
               /\ pc' = "bisect_polluter"
          ELSE /\ suspects' = suspects
               /\ pc' = "probe_right"
  /\ UNCHANGED <<mode, test_ids, limit, rc_ok, stdout, li, soloLog, victims,
                 vi, results, victim, runner, top_suspects, offset, ret,
                 before, after, changes>>

\* lines 39-41: probe the right half; on failure recurse into it, else
\* return the undivided list
BisectRight ==
  /\ pc = "probe_right"
  /\ \E ff \in ProbeOutcomes(Right(suspects)) :
       LET e == ProbeEntry("right", Right(suspects), offset + Mid(suspects), ff) IN
       /\ probes' = Append(probes, e)
       /\ IF ~e.result
          THEN /\ suspects' = Right(suspects)
               /\ offset' = offset + Mid(suspects)
               /\ pc' = "bisect_polluter"
               /\ ret' = ret
          ELSE /\ suspects' = suspects
               /\ offset' = offset
               /\ pc' = "bisect_return"
               /\ ret' = suspects
  /\ UNCHANGED <<mode, test_ids, limit, rc_ok, stdout, li, soloLog, victims,
                 vi, results, victim, runner, top_suspects,
                 before, after, changes>>

(***************************************************************************)
(* find_victims                                                            *)
(***************************************************************************)
\* str.split(" ") of a test id
Words(t) == IF t = "c[x y]" THEN <<"c[x", "y]">> ELSE <<t>>

\* A line of the report as line.split(" ").  "<id> PASSED" and "<id> FAILED"
\* are pytest -v result lines, "FAILED <id>" is a line of pytest's short test
\* summary, and " FAILED" (leading space) is a line with no identifier.
ReportLines ==
  {Words(t) \o <<"PASSED">> : t \in TestIDs}
    \cup {Words(t) \o <<"FAILED">> : t \in TestIDs}
    \cup {<<"FAILED">> \o Words(t) : t \in TestIDs}
    \cup {<<"", "FAILED">>}

Reports == SeqsUpTo(ReportLines, MaxReport)

\* line 70: " FAILED" in line -- a space followed by FAILED, so the marker
\* is a token other than the first
HasFailedMarker(line) == \E i \in 2..Len(line) : line[i] = "FAILED"

\* line 71: line.split(" ")[0].strip()
LineTid(line) == line[1]

\* lines 63-68: the full run
FullRun ==
  /\ pc = "find_victims"
  /\ \E ok \in BOOLEAN, out \in Reports :
       /\ rc_ok' = ok
       /\ stdout' = out
       /\ pc' = IF ok THEN "find_victims_return" ELSE "find_victims_loop"
  /\ victims' = <<>>
  /\ li' = 1
  /\ UNCHANGED <<mode, test_ids, limit, soloLog, vi, results, victim,
                 suspects, runner, top_suspects, offset, probes, ret,
                 before, after, changes>>

\* lines 69-73: one line of the report; a marked line with an identifier
\* has its test re-run alone (firstFail is what that run does)
ReportLine ==
  /\ pc = "find_victims_loop"
  /\ li <= Len(stdout)
  /\ LET line == stdout[li]
         tid == LineTid(line) IN
     IF HasFailedMarker(line) /\ tid # ""
     THEN \E ff \in Outcomes(<<tid>>) :
            LET passed == run_sequence(<<tid>>, ff) IN
            /\ soloLog' = Append(soloLog, [line |-> li, tid |-> tid,
                                           passed |-> passed])
            /\ victims' = IF passed THEN Append(victims, tid) ELSE victims
     ELSE UNCHANGED <<soloLog, victims>>
  /\ li' = li + 1
  /\ UNCHANGED <<mode, pc, test_ids, limit, rc_ok, stdout, vi, results, victim,
                 suspects, runner, top_suspects, offset, probes, ret,
                 before, after, changes>>

\* line 74
ReportEnd ==
  /\ pc = "find_victims_loop"
  /\ li > Len(stdout)
  /\ pc' = "find_victims_return"
  /\ UNCHANGED <<mode, test_ids, limit, rc_ok, stdout, li, soloLog, victims,
                 vi, results, victim, suspects, runner, top_suspects, offset,
                 probes, ret, before, after, changes>>

(***************************************************************************)
(* analyze                                                                 *)
(***************************************************************************)
\* variant of LimitReached: 0 < limit < i
LimitReachedOffByOne(lim, i) == 0 < lim /\ lim < i

\* line 97: 0 < limit <= i
LimitReached(lim, i) == 0 < lim /\ lim <= i

\* line 100: test_ids.index(victim) if victim in test_ids else len(test_ids)
IndexOf(ids, v) ==
  IF v \in Range(ids)
  THEN (CHOOSE i \in 1..Len(ids) :
          ids[i] = v /\ \A j \in 1..(i - 1) : ids[j] # v) - 1
  ELSE Len(ids)

\* line 101: [t for t in test_ids[:idx] if t != victim]
Suspects(ids, v) ==
  LET NotVictim(t) == t # v IN
  SelectSeq(SubSeq(ids, 1, IndexOf(ids, v)), NotVictim)

\* lines 94-95: find_victims has returned; its locals are gone
AnalyzeVictims ==
  /\ mode = "analyze"
  /\ pc = "find_victims_return"
  /\ results' = <<>>
  /\ vi' = 1
  /\ rc_ok' = FALSE
  /\ stdout' = <<>>
  /\ li' = 1
  /\ soloLog' = <<>>
  /\ pc' = "analyze_loop"
  /\ UNCHANGED <<mode, test_ids, limit, victims, victim, suspects, runner,
                 top_suspects, offset, probes, ret, before, after, changes>>

\* lines 96-102: the next victim, up to the call of bisect_polluter
AnalyzeNext ==
  /\ pc = "analyze_loop"
  /\ vi <= Len(victims)
  /\ ~LimitReached(limit, vi - 1)
  /\ victim' = victims[vi]
  /\ suspects' = Suspects(test_ids, victims[vi])
  /\ top_suspects' = Suspects(test_ids, victims[vi])
  /\ offset' = 0
  /\ probes' = <<>>
  /\ runner' = None
  /\ pc' = "bisect_polluter"
  /\ UNCHANGED <<mode, test_ids, limit, rc_ok, stdout, li, soloLog, victims,
                 vi, results, ret, before, after, changes>>

\* line 103
AnalyzeAppend ==
  /\ mode = "analyze"
  /\ pc = "bisect_return"
  /\ results' = Append(results, [victim |-> victim, polluters |-> ret,
                                 state_changes |-> <<>>])
  /\ vi' = vi + 1
  /\ pc' = "analyze_loop"
  /\ UNCHANGED <<mode, test_ids, limit, rc_ok, stdout, li, soloLog, victims,
                 victim, suspects, runner, top_suspects, offset, probes, ret,
                 before, after, changes>>

\* lines 97-99 and 104: the limit is reached or the victims are exhausted
AnalyzeReturn ==
  /\ pc = "analyze_loop"
  /\ vi > Len(victims) \/ LimitReached(limit, vi - 1)
  /\ pc' = "analyze_return"
  /\ UNCHANGED <<mode, test_ids, limit, rc_ok, stdout, li, soloLog, victims,
                 vi, results, victim, suspects, runner, top_suspects, offset,
                 probes, ret, before, after, changes>>

(***************************************************************************)
(* StateSnapshot.diff as a step                                            *)
(***************************************************************************)
\* lines 14-25
Diff ==
  /\ pc = "diff"
  /\ changes' \in diff(before, after)
  /\ pc' = "diff_return"
  /\ UNCHANGED <<mode, test_ids, limit, rc_ok, stdout, li, soloLog, victims,
                 vi, results, victim, suspects, runner, top_suspects, offset,
                 probes, ret, before, after>>

(***************************************************************************)
(* Specification                                                           *)
(***************************************************************************)
NoSnapshot == [env |-> <<>>, modules |-> {}]

\* a direct call of bisect_polluter with an injected runner
InitBisect ==
  /\ mode = "bisect"
  /\ pc = "bisect_polluter"
  /\ victim = "victim"
  /\ suspects \in SeqsUpTo(TestIDs, MaxSuspects)
  /\ top_suspects = suspects
  /\ runner \in [given : {TRUE}, passes : Runners]
  /\ test_ids = <<>> /\ limit = 0
  /\ before = NoSnapshot /\ after = NoSnapshot

\* a call of analyze; main (lines 117-119) calls it with a list that is not
\* empty
InitAnalyze ==
  /\ mode = "analyze"
  /\ pc = "find_victims"
  /\ test_ids \in SeqsUpTo(TestIDs, MaxTests) \ {<<>>}
  /\ limit \in 0..MaxLimit
  /\ victim = "" /\ suspects = <<>> /\ top_suspects = <<>>
  /\ runner = None
  /\ before = NoSnapshot /\ after = NoSnapshot

\* a call of diff
InitDiff ==
  /\ mode = "diff"
  /\ pc = "diff"
  /\ before \in Snapshots
  /\ after \in Snapshots
  /\ victim = "" /\ suspects = <<>> /\ top_suspects = <<>>
  /\ runner = None
  /\ test_ids = <<>> /\ limit = 0

Init ==
  /\ InitBisect \/ InitAnalyze \/ InitDiff
  /\ rc_ok = FALSE /\ stdout = <<>> /\ li = 1 /\ soloLog = <<>>
  /\ victims = <<>> /\ vi = 1 /\ results = <<>>
  /\ offset = 0 /\ probes = <<>> /\ ret = <<>>
  /\ changes = <<>>

Next ==
  \/ BisectBase
  \/ BisectLeft
  \/ BisectRight
  \/ FullRun
  \/ ReportLine
  \/ ReportEnd
  \/ AnalyzeVictims
  \/ AnalyzeNext
  \/ AnalyzeAppend
  \/ AnalyzeReturn
  \/ Diff

Spec == Init /\ [][Next]_vars

(***************************************************************************)
(* Properties                                                              *)
(***************************************************************************)
\* a direct call of bisect_polluter has returned
BisectReturned == mode = "bisect" /\ pc = "bisect_return"

\* the injected runner fails on a list exactly when p is in it
FailsExactlyWith(p) ==
  /\ runner.given
  /\ \A S \in SUBSET TestIDs : runner.passes[S] <=> p \notin S

\* C1: if the runner fails on a subset exactly when p is in it and p occurs
\* in suspects, bisect_polluter returns the one-element list [p], whatever
\* the length of suspects and the position of p.
C1_SinglePolluterIsolated ==
  \A p \in TestIDs :
    (BisectReturned /\ p \in Range(top_suspects) /\ FailsExactlyWith(p))
      => ret = <<p>>

\* the polluter is the last of four suspects
C1_Witness ==
  /\ BisectReturned
  /\ FailsExactlyWith("c[x y]")
  /\ top_suspects = <<"a", "b", "a", "c[x y]">>
  /\ Len(probes) = 4

\* the injected runner fails on the full suspects list
FailsOnAll == runner.given /\ ~runner.passes[Range(top_suspects)]

\* the runner fails only on lists that hold every test of R
Requires(R) == \A S \in SUBSET TestIDs : ~runner.passes[S] => R \subseteq S

\* C2: when the runner fails on the full suspects list it also fails on the
\* returned list; hence every test the failure requires is in the returned
\* list.
C2_ResultFailsRunner ==
  (BisectReturned /\ FailsOnAll) =>
     /\ ~runner.passes[Range(ret)]
     /\ \A R \in SUBSET TestIDs : Requires(R) => R \subseteq Range(ret)

\* suspects [a,b] and a runner that fails only when both are present
C2_Witness ==
  /\ BisectReturned
  /\ top_suspects = <<"a", "b">>
  /\ \A S \in SUBSET TestIDs : runner.passes[S] <=> ~({"a", "b"} \subseteq S)
  /\ Range(ret) = {"a", "b"}

RemoveAt(s, i) == SubSeq(s, 1, i - 1) \o SubSeq(s, i + 1, Len(s))

WellFormed ==
  /\ \A i, j \in 1..Len(test_ids) : test_ids[i] = test_ids[j] => i = j
  /\ victim \in Range(test_ids)

\* C4: in analyze every probe runs the subset followed by the victim, and
\* its result is true exactly when the victim passed in that run (false
\* exactly when the victim failed), whatever the tests of the subset did.
\* Stated for the calls whose test_ids holds no test twice and holds the
\* victim, which are among the claim's.
C4_ProbeReportsVictim ==
  (mode = "analyze" /\ WellFormed) =>
    \A k \in 1..Len(probes) :
      probes[k].victim_out = IF probes[k].result THEN "passed" ELSE "failed"

\* the tests of ids that occur strictly before an occurrence of v
TestsBefore(ids, v) ==
  {ids[i] : i \in {i \in 1..Len(ids) : \E j \in (i + 1)..Len(ids) : ids[j] = v}}

\* C5: the polluters of every Finding are tests that occur strictly before
\* its victim in test_ids, never the victim, and are empty only when the
\* suspect list of that victim was empty.
C5_FindingInvariant ==
  \A k \in 1..Len(results) :
    LET f == results[k] IN
    /\ Range(f.polluters) \subseteq TestsBefore(test_ids, f.victim)
    /\ f.victim \notin Range(f.polluters)
    /\ f.polluters = <<>> => Suspects(test_ids, f.victim) = <<>>

\* the report says in this line that test t failed
ReportsFailed(line, t) == line = Words(t) \o <<"FAILED">>

ReportedFailed(line) == \E t \in TestIDs : ReportsFailed(line, t)

PassedAlone(e) == e.passed

\* what find_victims must have done at its return, for the lines `lines`
\* of the report
VictimsExact(lines) ==
  IF rc_ok
  THEN victims = <<>> /\ soloLog = <<>>
  ELSE LET failed == {k \in lines : ReportedFailed(stdout[k])}
           reruns == SelectSeq(soloLog, LAMBDA e : e.line \in lines)
           alone == SelectSeq(reruns, PassedAlone) IN
       /\ Len(reruns) = Cardinality(failed)
       /\ \A k \in 1..Len(reruns) :
            /\ reruns[k].line \in failed
            /\ ReportsFailed(stdout[reruns[k].line], reruns[k].tid)
            /\ \A j \in 1..(k - 1) : reruns[j].line < reruns[k].line
       /\ lines = 1..Len(stdout) =>
            victims = [k \in 1..Len(alone) |-> alone[k].tid]

\* C6: find_victims returns exactly the tests reported as failed in the full
\* run that pass when re-run alone (each such test is re-run alone, and is a
\* victim exactly if that run passes), in the order of the report; when the
\* full run reports overall success the result is empty and no test is
\* re-run alone.
C6_VictimsExact ==
  pc = "find_victims_return" => VictimsExact(1..Len(stdout))

\* The same for the lines of the report whose test id holds no space; this
\* part of C6 holds.
VictimsExactWithoutSpaces ==
  pc = "find_victims_return" =>
    VictimsExact({k \in 1..Len(stdout) :
                    \A t \in TestIDs :
                      ReportsFailed(stdout[k], t) => Len(Words(t)) = 1})

Min(x, y) == IF x < y THEN x ELSE y

\* bisect_polluter is running for the victim of index vi
Bisecting == pc \in {"bisect_polluter", "probe_right", "bisect_return"}

\* C7: analyze returns one Finding per victim in victim order: those of the
\* first min(limit, number of victims) victims when limit > 0, of every
\* victim when limit = 0; no bisection runs for a later victim.
C7_ReportingLimit ==
  mode = "analyze" =>
    /\ (Bisecting /\ limit > 0) => vi <= limit
    /\ pc = "analyze_return" =>
         /\ Len(results) = IF limit > 0 THEN Min(limit, Len(victims))
                           ELSE Len(victims)
         /\ \A k \in 1..Len(results) : results[k].victim = victims[k]

\* two victims and a limit of one
C7_Witness ==
  /\ mode = "analyze"
  /\ pc = "analyze_return"
  /\ limit = 1
  /\ Len(victims) = 2
  /\ Len(results) = 1

\* C8: for a suspects list of length 0 or 1 bisect_polluter returns the list
\* unchanged and never invokes the runner, whatever the runner would return.
C8_BaseCase ==
  Len(top_suspects) <= 1 =>
    /\ probes = <<>>
    /\ pc = "bisect_return" => ret = top_suspects

\* a single suspect on which the runner would pass
C8_Witness ==
  /\ BisectReturned
  /\ top_suspects = <<"b">>
  /\ runner.passes[{"b"}]
  /\ ~runner.passes[{}]

\* the records the claim lists for two snapshots
ExpectedChanges(b, a) ==
  {[type |-> "env_added", key |-> k, value |-> a.env[k]]
     : k \in {k \in Keys : k \in DOMAIN a.env /\ k \notin DOMAIN b.env}}
  \cup {[type |-> "env_removed", key |-> k]
     : k \in {k \in Keys : k \in DOMAIN b.env /\ k \notin DOMAIN a.env}}
  \cup {[type |-> "env_changed", key |-> k, old |-> b.env[k], new |-> a.env[k]]
     : k \in {k \in Keys : /\ k \in DOMAIN b.env /\ k \in DOMAIN a.env
                           /\ b.env[k] # a.env[k]}}
  \cup {[type |-> "module_added", module |-> m]
     : m \in {m \in Modules : m \in a.modules /\ m \notin b.modules}}

\* C9: diff returns exactly the env_added, env_removed, env_changed and
\* module_added records of the two snapshots, each once and nothing else;
\* a module only in before yields no record and equal snapshots yield none.
C9_DiffExact ==
  pc = "diff_return" =>
    /\ Range(changes) = ExpectedChanges(before, after)
    /\ Len(changes) = Cardinality(ExpectedChanges(before, after))
    /\ \A k \in 1..Len(changes) :
         changes[k].type = "module_added" => changes[k].module \in after.modules
    /\ before = after => changes = <<>>

\* one key changed, one key removed, one module added, one module unloaded
C9_Witness ==
  /\ pc = "diff_return"
  /\ before = [env |-> [k \in {"K1", "K2"} |-> "x"], modules |-> {"m1"}]
  /\ after = [env |-> [k \in {"K1"} |-> "y"], modules |-> {"m2"}]
  /\ Len(changes) = 3

\* ceil(log2(n)) for n >= 1
CeilLog2(n) == CHOOSE k \in 0..n : 2^k >= n /\ (k = 0 \/ 2^(k - 1) < n)

\* C10: for n >= 2 suspects and any runner, bisect_polluter invokes the
\* runner at most 2*ceil(log2(n)) times and never stops before returning;
\* the left half of a split is probed first, the right half only after the
\* left half passed, and no half is probed twice.
C10_ProbeCount ==
  Len(top_suspects) >= 2 =>
    /\ Len(probes) <= 2 * CeilLog2(Len(top_suspects))
    /\ pc \in {"bisect_polluter", "probe_right"} =>
         ENABLED (BisectBase \/ BisectLeft \/ BisectRight)
    /\ \A k \in 1..Len(probes) :
         LET e == probes[k]
             m == e.of_lo + (e.of_hi - e.of_lo) \div 2 IN
         /\ e.half = "left" => e.lo = e.of_lo /\ e.hi = m
         /\ e.half = "right" => e.lo = m /\ e.hi = e.of_hi
         /\ k = 1 => /\ e.half = "left"
                     /\ e.of_lo = 0 /\ e.of_hi = Len(top_suspects)
         /\ (k > 1 /\ e.half = "left") =>
              /\ ~probes[k - 1].result
              /\ e.of_lo = probes[k - 1].lo /\ e.of_hi = probes[k - 1].hi
         /\ e.half = "right" =>
              /\ k > 1
              /\ probes[k - 1].half = "left"
              /\ probes[k - 1].result
              /\ probes[k - 1].of_lo = e.of_lo /\ probes[k - 1].of_hi = e.of_hi
         /\ \A j \in 1..(k - 1) : <<probes[j].lo, probes[j].hi>> # <<e.lo, e.hi>>

\* four suspects and four probes: the right half failed twice
C10_Witness ==
  /\ pc = "bisect_return"
  /\ Len(top_suspects) = 4
  /\ Len(probes) = 4
  /\ probes[2].half = "right" /\ probes[4].half = "right"
  /\ Len(ret) = 1

====
